---- MODULE Spec2Model ----
(***************************************************************************)
(* Model of the ultra HTTP engine: the routing trie (src/src/router.rs)    *)
(* and the per-connection read/parse/dispatch loop (src/src/reader.rs).    *)
(*                                                                         *)
(* Strings the code inspects character by character (paths) are sequences  *)
(* of one-character strings, so that split('/') and the ':' prefix test    *)
(* are computed, not assumed.                                              *)
(***************************************************************************)
EXTENDS Integers, Sequences, FiniteSets, TLC

None == "None"

(***************************************************************************)
(* Bounds                                                                  *)
(***************************************************************************)
MaxAdds == 2
MaxBody == 2

(***************************************************************************)
(* Router: inputs the model registers and requests                         *)
(***************************************************************************)
Methods == {"GET", "PURGE"}
Handlers == {"h1", "h2"}

\* registered patterns: "*", "/", "/a/b", "/a//b", "/a/:i", "/a/:j", "/a/*"
Patterns ==
  { <<"*">>,
    <<"/">>,
    <<"/", "a", "/", "b">>,
    <<"/", "a", "/", "/", "b">>,
    <<"/", "a", "/", ":", "i">>,
    <<"/", "a", "/", ":", "j">>,
    <<"/", "a", "/", "*">> }

\* requested paths: "/", "/a", "/a/b", "/a//b", "/a/c", "/a/:", "/a/*",
\* "/a/c/b", "/a/*/b", "/c"
ReqPaths ==
  { <<"/">>,
    <<"/", "a">>,
    <<"/", "a", "/", "b">>,
    <<"/", "a", "/", "/", "b">>,
    <<"/", "a", "/", "c">>,
    <<"/", "a", "/", ":">>,
    <<"/", "a", "/", "*">>,
    <<"/", "a", "/", "c", "/", "b">>,
    <<"/", "a", "/", "*", "/", "b">>,
    <<"/", "c">> }

(***************************************************************************)
(* str::split: the pieces of s between occurrences of sep, empty pieces    *)
(* included ("/a" gives "", "a"; "/" gives "", "").                        *)
(***************************************************************************)
RECURSIVE split(_, _)
split(s, sep) ==
  IF \A i \in 1..Len(s) : s[i] # sep
  THEN <<s>>
  ELSE LET i == CHOOSE k \in 1..Len(s) :
                  s[k] = sep /\ \A l \in 1..(k - 1) : s[l] # sep
       IN  <<SubSeq(s, 1, i - 1)>> \o split(SubSeq(s, i + 1, Len(s)), sep)

(***************************************************************************)
(* Node and trie.  A trie is a function from the key path of a node (the   *)
(* sequence of child keys leading to it from the root) to the node's own   *)
(* fields; a node's children map is the set of key paths one key longer.   *)
(* Option<&str> is the empty sequence (None) or a one-element sequence.    *)
(***************************************************************************)
NodeDefault == [param |-> << >>, method |-> None]

TrieDefault == (<< >> :> NodeDefault)

children(trie, p) ==
  { q \in DOMAIN trie : Len(q) = Len(p) + 1 /\ SubSeq(q, 1, Len(p)) = p }

contains_key(trie, p, seg) == Append(p, seg) \in DOMAIN trie

set_func_keep(trie, p, func) ==
  IF trie[p].method # None THEN trie ELSE [trie EXCEPT ![p].method = func]

set_func(trie, p, func) == [trie EXCEPT ![p].method = func]

add_child(trie, p, seg, param) ==
  IF contains_key(trie, p, seg)
  THEN trie
  ELSE (Append(p, seg) :> [param |-> param, method |-> None]) @@ trie

RouterNew ==
  [ get |-> TrieDefault, put |-> TrieDefault, post |-> TrieDefault,
    head |-> TrieDefault, patch |-> TrieDefault, delete |-> TrieDefault,
    options |-> TrieDefault, routes |-> TrieDefault, default |-> None ]

\* the trie root Router::add selects for a method
Bucket(method) ==
  CASE method = "GET" -> "get"
    [] method = "PUT" -> "put"
    [] method = "POST" -> "post"
    [] method = "HEAD" -> "head"
    [] method = "PATCH" -> "patch"
    [] method = "DELETE" -> "delete"
    [] method = "OPTIONS" -> "options"
    [] OTHER -> "routes"

\* the child key Router::add uses for a pattern segment, and its param name
IsParamSeg(seg) == Len(seg) > 0 /\ seg[1] = ":"
SegKey(seg) == IF IsParamSeg(seg) THEN <<":">> ELSE seg
SegParam(seg) == IF IsParamSeg(seg) THEN <<SubSeq(seg, 2, Len(seg))>> ELSE << >>

\* the loop of Router::add over the segments: [trie, node] after segs[i..]
RECURSIVE AddSegs(_, _, _, _)
AddSegs(trie, node, segs, i) ==
  IF i > Len(segs)
  THEN [trie |-> trie, node |-> node]
  ELSE IF segs[i] = << >>
       THEN AddSegs(trie, node, segs, i + 1)
       ELSE AddSegs(add_child(trie, node, SegKey(segs[i]), SegParam(segs[i])),
                    Append(node, SegKey(segs[i])), segs, i + 1)

add(r, method, path, func) ==
  LET b == Bucket(method) IN
  IF path = <<"*">>
  THEN [r EXCEPT !.default = func]
  ELSE IF path = <<"/">>
       THEN [r EXCEPT ![b] = set_func(r[b], << >>, func)]
       ELSE LET w == AddSegs(r[b], << >>, split(path, "/"), 1)
            IN  [r EXCEPT ![b] = set_func(w.trie, w.node, func)]

(***************************************************************************)
(* Router::find.  Lookup is the chain of children.get() calls made for one *)
(* segment; Walk returns the node reached, the params pushed, not_found,   *)
(* and a record of the segments looked up (looked) and of the child taken  *)
(* at each level with the lookup that produced it (taken).                 *)
(***************************************************************************)
Lookup_ParamFirst(trie, node, seg) ==
  IF contains_key(trie, node, <<":">>) THEN "param"
  ELSE IF contains_key(trie, node, seg) THEN "exact"
  ELSE IF contains_key(trie, node, <<"*">>) THEN "wildcard"
  ELSE "none"

Lookup(trie, node, seg) ==
  IF contains_key(trie, node, seg) THEN "exact"
  ELSE IF contains_key(trie, node, <<":">>) THEN "param"
  ELSE IF contains_key(trie, node, <<"*">>) THEN "wildcard"
  ELSE "none"

RECURSIVE Walk(_, _, _, _)
Walk(trie, segs, i, w) ==
  IF i > Len(segs)
  THEN w
  ELSE LET seg == segs[i]
           via == Lookup(trie, w.node, seg)
           key == CASE via = "exact" -> seg
                    [] via = "param" -> <<":">>
                    [] OTHER -> <<"*">>
           step == [w EXCEPT !.node = Append(w.node, key),
                             !.looked = Append(@, i),
                             !.taken = Append(@, [at |-> w.node, seg |-> seg, idx |-> i,
                                                  key |-> key, via |-> via])]
       IN
       IF seg = << >>
       THEN Walk(trie, segs, i + 1, w)
       ELSE IF children(trie, w.node) = {}
            THEN [w EXCEPT !.not_found = TRUE]
            ELSE CASE via = "exact" -> Walk(trie, segs, i + 1, step)
                   [] via = "param" ->
                        IF trie[Append(w.node, key)].param = << >>
                        THEN [w EXCEPT !.panic = TRUE, !.looked = Append(@, i)]
                        ELSE Walk(trie, segs, i + 1,
                               [step EXCEPT !.params = Append(@,
                                   <<trie[Append(w.node, key)].param[1], seg>>)])
                   [] via = "wildcard" -> step
                   [] OTHER -> [w EXCEPT !.not_found = TRUE, !.looked = Append(@, i)]

WalkStart ==
  [node |-> << >>, params |-> << >>, not_found |-> FALSE, panic |-> FALSE,
   looked |-> << >>, taken |-> << >>]

\* Option::unwrap on a handler slot, then the call
CallUnwrap(func) ==
  IF func = None THEN [outcome |-> "panic", func |-> None]
                 ELSE [outcome |-> "called", func |-> func]

\* req.params is None (<< >>) until set_params(Some(list)) makes it <<list>>
find(r, path) ==
  LET trie == r.routes IN
  IF path = <<"/">>
  THEN CallUnwrap(trie[<< >>].method)
         @@ [params |-> << >>, walk |-> WalkStart, segs |-> << >>]
  ELSE LET segs == split(path, "/")
           w == Walk(trie, segs, 1, WalkStart)
       IN  (IF w.panic
            THEN [outcome |-> "panic", func |-> None]
            ELSE IF w.not_found
                 THEN CallUnwrap(r.default)
                 ELSE IF trie[w.node].method # None
                      THEN CallUnwrap(trie[w.node].method)
                      ELSE CallUnwrap(r.default))
             @@ [params |-> <<w.params>>, walk |-> w, segs |-> segs]

(***************************************************************************)
(* Connection (Reader): the bytes on the wire.                             *)
(*                                                                         *)
(* The unit of buffer length is a token: a request line, one header line,  *)
(* the empty line ending a head, one body byte, a chunk-size line, or the  *)
(* line terminator after a chunk payload.  A token is                      *)
(* [k |-> kind, a |-> string, b |-> sequence of characters].               *)
(***************************************************************************)
Tok(k, a, b) == [k |-> k, a |-> a, b |-> b]

Line(method, path) == Tok("line", method, path)
Hdr(name, value) == Tok("hdr", name, value)
EndOfHead == Tok("end", "", << >>)
Data(byte) == Tok("data", byte, << >>)
SizeLine(hex) == Tok("size", "", hex)
Crlf == Tok("crlf", "", << >>)

Digits == <<"0", "1", "2", "3", "4", "5", "6", "7", "8", "9">>
IsDigit(ch) == \E d \in 1..10 : Digits[d] = ch
DigitVal(ch) == (CHOOSE d \in 1..10 : Digits[d] = ch) - 1

\* the decimal text of n (n < 100)
Dec(n) == IF n < 10 THEN <<Digits[n + 1]>> ELSE <<Digits[(n \div 10) + 1], Digits[(n % 10) + 1]>>

\* str::parse::<usize>: [ok, val]
RECURSIVE ParseDigits(_, _, _)
ParseDigits(chars, i, acc) ==
  IF i > Len(chars) THEN acc
  ELSE ParseDigits(chars, i + 1, acc * 10 + DigitVal(chars[i]))

ParseUsize(chars) ==
  IF chars # << >> /\ \A i \in 1..Len(chars) : IsDigit(chars[i])
  THEN [ok |-> TRUE, val |-> ParseDigits(chars, 1, 0)]
  ELSE [ok |-> FALSE, val |-> 0]

\* str::to_lowercase on the header names the model sends
to_lowercase(name) ==
  CASE name = "Content-Length" -> "content-length"
    [] name = "Transfer-Encoding" -> "transfer-encoding"
    [] name = "Host" -> "host"
    [] OTHER -> name

Chunked == <<"c", "h", "u", "n", "k", "e", "d">>

\* str::parse::<Uri>: the characters the model sends in a path, '^' being one
\* the Uri parser rejects
UriParses(path) == path # << >> /\ \A i \in 1..Len(path) : path[i] # "^"

(***************************************************************************)
(* Head Tokenizer (httparse::Request::parse): Partial while the empty line *)
(* is not buffered, Complete(amt) with the head's fields, or an error.     *)
(***************************************************************************)
HeadEnd(buf) ==
  IF \E i \in 1..Len(buf) : buf[i].k = "end"
  THEN CHOOSE i \in 1..Len(buf) : buf[i].k = "end" /\ \A j \in 1..(i - 1) : buf[j].k # "end"
  ELSE 0

HeadParse(buf) ==
  LET e == HeadEnd(buf)
      last == IF e = 0 THEN Len(buf) ELSE e - 1
      wellFormed == \A i \in 1..last : IF i = 1 THEN buf[i].k = "line" ELSE buf[i].k = "hdr"
  IN  IF ~wellFormed \/ e = 1
      THEN [status |-> "Err", amt |-> 0, method |-> "", path |-> << >>, headers |-> << >>]
      ELSE IF e = 0
           THEN [status |-> "Partial", amt |-> 0, method |-> "", path |-> << >>, headers |-> << >>]
           ELSE [status |-> "Complete", amt |-> e, method |-> buf[1].a, path |-> buf[1].b,
                 headers |-> [i \in 1..(e - 2) |-> [name |-> buf[i + 1].a, value |-> buf[i + 1].b]]]

(***************************************************************************)
(* Chunked Transfer Decoder (chunk::parse): one frame per success:         *)
(* size line, payload, line terminator; size 0 is the terminal chunk.      *)
(***************************************************************************)
HexVal(chars) == ParseUsize(chars)

ChunkParse(buf) ==
  LET none == [status |-> "NotEnoughData", is_last |-> FALSE, data |-> << >>, rest |-> buf]
      err == [status |-> "Err", is_last |-> FALSE, data |-> << >>, rest |-> buf]
  IN  IF buf = << >> THEN none
      ELSE IF buf[1].k # "size" \/ ~HexVal(buf[1].b).ok THEN err
      ELSE LET n == HexVal(buf[1].b).val IN
           IF Len(buf) < n + 2 THEN none
           ELSE IF buf[n + 2].k # "crlf" THEN err
           ELSE [status |-> "Chunk", is_last |-> (n = 0),
                 data |-> SubSeq(buf, 2, n + 1),
                 rest |-> SubSeq(buf, n + 3, Len(buf))]

(***************************************************************************)
(* Request, Response, handlers                                             *)
(***************************************************************************)
RequestNew ==
  [method |-> "", path |-> << >>, headers |-> << >>, data |-> << >>,
   is_last |-> FALSE, has_function |-> FALSE]

ResponseNew == [shutdown |-> FALSE]

\* Request::init: the head's fields replace those of the previous request
RequestInit(req, method, path) ==
  [req EXCEPT !.method = method, !.path = path, !.data = << >>,
              !.is_last = FALSE, !.has_function = FALSE]

EchoPath == <<"/", "e">>
PlainPath == <<"/", "p">>

\* the handlers behind the router: the one for EchoPath installs a streaming
\* continuation (has_function = true, on_data = Function), the others do not
Installs(path) == path = EchoPath

\* the (Request, Response) a handler future resolves to; a continuation may
\* take the payload out of req.data or leave it there
HandlerResult(req, kind, take) ==
  IF kind = "find"
  THEN [req EXCEPT !.has_function = Installs(req.path)]
  ELSE IF take THEN [req EXCEPT !.data = << >>] ELSE req

NoFut == [kind |-> "none", done |-> FALSE]

KeepAliveSecs == 10

(***************************************************************************)
(* Reader::poll, as steps on the connection record c                       *)
(*   pc: "poll"  at the top of the outer loop                              *)
(*       "ready" at the top of the inner loop, (req, res) held locally     *)
(*       "read"  after the read-state match, before socket.read_buf        *)
(*       "NotReady", "Ready", "Err": what poll returned; "panic": aborted  *)
(***************************************************************************)
ReaderNew ==
  [ buffer |-> << >>, req_func |-> "Empty", body_size |-> 0,
    read_state |-> "Request", process_state |-> "Ready", fut |-> NoFut,
    req |-> RequestNew, res |-> ResponseNew,
    keep_alive_timer |-> KeepAliveSecs,
    pc |-> "poll", log |-> << >>, rcvd |-> 0 ]

\* one handler invocation as the log keeps it; pos is the offset in the byte
\* stream up to which the connection had consumed bytes, buffered the buffer
\* length when the call was decided
Entry(kind, req, payload, pos, buffered) ==
  [kind |-> kind, method |-> req.method, path |-> req.path, headers |-> req.headers,
   payload |-> payload, data |-> req.data, is_last |-> req.is_last,
   pos |-> pos, buffered |-> buffered]

Consumed(c) == c.rcvd - Len(c.buffer)

ToRead(c) == [c EXCEPT !.process_state = "Empty", !.pc = "read"]

Call(c, kind, req, payload, pos, buffered) ==
  [c EXCEPT !.req = req,
            !.process_state = "Processing",
            !.fut = [kind |-> kind, done |-> FALSE],
            !.log = Append(@, Entry(kind, req, payload, pos, buffered)),
            !.pc = "poll"]

\* the mutation: a pending handler future does not suspend the poll, which
\* goes on to read the socket
ProcessingStep_PollOn(c, take) ==
  IF ~c.fut.done
  THEN [c EXCEPT !.process_state = "Processing", !.pc = "read"]
  ELSE LET r == HandlerResult(c.req, c.fut.kind, take) IN
       [c EXCEPT !.keep_alive_timer = KeepAliveSecs,
                 !.req_func = IF r.has_function THEN "Function" ELSE @,
                 !.req = [r EXCEPT !.has_function = FALSE],
                 !.process_state = "Ready",
                 !.fut = NoFut,
                 !.pc = "poll"]

ProcessingStep(c, take) ==
  IF ~c.fut.done
  THEN [c EXCEPT !.process_state = "Processing", !.pc = "NotReady"]
  ELSE LET r == HandlerResult(c.req, c.fut.kind, take) IN
       [c EXCEPT !.keep_alive_timer = KeepAliveSecs,
                 !.req_func = IF r.has_function THEN "Function" ELSE @,
                 !.req = [r EXCEPT !.has_function = FALSE],
                 !.process_state = "Ready",
                 !.fut = NoFut,
                 !.pc = "poll"]

BodyStep_NoWait(c) ==
  LET n == IF Len(c.buffer) >= c.body_size THEN c.body_size ELSE Len(c.buffer)
      payload == SubSeq(c.buffer, 1, n)
      rest == SubSeq(c.buffer, n + 1, Len(c.buffer))
      c1 == [c EXCEPT !.read_state = "Request", !.buffer = rest]
  IN  IF c.req_func = "Function"
      THEN Call(c1, "on_data", [c.req EXCEPT !.data = payload, !.is_last = TRUE],
                payload, Consumed(c), Len(c.buffer))
      ELSE ToRead(c1)

\* the mutation: a body without continuation is discarded together with
\* everything buffered behind it
BodyStep_DrainAll(c) ==
  IF Len(c.buffer) >= c.body_size
  THEN LET payload == SubSeq(c.buffer, 1, c.body_size)
           rest == SubSeq(c.buffer, c.body_size + 1, Len(c.buffer))
           c1 == [c EXCEPT !.read_state = "Request", !.buffer = rest]
       IN  IF c.req_func = "Function"
           THEN Call(c1, "on_data", [c.req EXCEPT !.data = payload, !.is_last = TRUE],
                     payload, Consumed(c), Len(c.buffer))
           ELSE ToRead([c1 EXCEPT !.buffer = << >>])
  ELSE ToRead(c)

BodyStep(c) ==
  IF Len(c.buffer) >= c.body_size
  THEN LET payload == SubSeq(c.buffer, 1, c.body_size)
           rest == SubSeq(c.buffer, c.body_size + 1, Len(c.buffer))
           c1 == [c EXCEPT !.read_state = "Request", !.buffer = rest]
       IN  IF c.req_func = "Function"
           THEN Call(c1, "on_data", [c.req EXCEPT !.data = payload, !.is_last = TRUE],
                     payload, Consumed(c), Len(c.buffer))
           ELSE ToRead(c1)
  ELSE ToRead(c)

ChunkStep_SkipEmpty(c) ==
  IF Len(c.buffer) > 0
  THEN LET p == ChunkParse(c.buffer) IN
       CASE p.status = "Err" -> [c EXCEPT !.process_state = "Empty", !.pc = "Err"]
         [] p.status = "NotEnoughData" -> ToRead(c)
         [] OTHER ->
              LET c1 == [c EXCEPT !.buffer = p.rest,
                                  !.read_state = IF p.is_last THEN "Request" ELSE @]
                  req1 == [c.req EXCEPT !.is_last = IF p.is_last THEN TRUE ELSE @]
              IN  IF c.req_func = "Function" /\ p.data # << >>
                  THEN Call(c1, "on_data", [req1 EXCEPT !.data = @ \o p.data],
                            p.data, Consumed(c), Len(c.buffer))
                  ELSE ToRead([c1 EXCEPT !.req = req1])
  ELSE ToRead(c)

ChunkStep(c) ==
  IF Len(c.buffer) > 0
  THEN LET p == ChunkParse(c.buffer) IN
       CASE p.status = "Err" -> [c EXCEPT !.process_state = "Empty", !.pc = "Err"]
         [] p.status = "NotEnoughData" -> ToRead(c)
         [] OTHER ->
              LET c1 == [c EXCEPT !.buffer = p.rest,
                                  !.read_state = IF p.is_last THEN "Request" ELSE @]
                  req1 == [c.req EXCEPT !.is_last = IF p.is_last THEN TRUE ELSE @]
              IN  IF c.req_func = "Function"
                  THEN Call(c1, "on_data", [req1 EXCEPT !.data = @ \o p.data],
                            p.data, Consumed(c), Len(c.buffer))
                  ELSE ToRead([c1 EXCEPT !.req = req1])
  ELSE ToRead(c)

\* the header loop of the Request state: [read_state, body_size, panic]
RECURSIVE HeaderLoop(_, _, _)
HeaderLoop(headers, i, st) ==
  IF i > Len(headers) \/ st.panic
  THEN st
  ELSE LET name == to_lowercase(headers[i].name)
           value == headers[i].value
       IN  IF st.read_state # "Chunk"
           THEN IF name = "transfer-encoding"
                THEN IF Len(value) < 7
                     THEN [st EXCEPT !.panic = TRUE]
                     ELSE IF SubSeq(value, Len(value) - 6, Len(value)) = Chunked
                          THEN HeaderLoop(headers, i + 1, [st EXCEPT !.read_state = "Chunk"])
                          ELSE HeaderLoop(headers, i + 1, st)
                ELSE IF name = "content-length"
                     THEN IF ParseUsize(value).ok
                          THEN HeaderLoop(headers, i + 1,
                                 [st EXCEPT !.body_size = ParseUsize(value).val])
                          ELSE [st EXCEPT !.panic = TRUE]
                     ELSE HeaderLoop(headers, i + 1, st)
           ELSE HeaderLoop(headers, i + 1, st)

\* req.add_header(name, buf): buf is a Vec::with_capacity(len) whose spare
\* capacity received the value through bytes_mut(); its length stays 0
StoredHeaders(headers) ==
  [i \in 1..Len(headers) |-> <<to_lowercase(headers[i].name), << >> >>]

\* the mutation: a parsed head leaves the stored continuation in place
RequestStep_KeepFunc(c) ==
  LET p == HeadParse(c.buffer) IN
  CASE p.status = "Partial" -> ToRead(c)
    [] p.status = "Err" -> [c EXCEPT !.process_state = "Empty", !.pc = "Err"]
    [] OTHER ->
         LET st == HeaderLoop(p.headers, 1,
                     [read_state |-> "Body", body_size |-> 0, panic |-> FALSE])
             req1 == [RequestInit(c.req, p.method, p.path)
                        EXCEPT !.headers = StoredHeaders(p.headers)]
             c1 == [c EXCEPT !.body_size = st.body_size,
                             !.read_state = st.read_state,
                             !.buffer = SubSeq(c.buffer, p.amt + 1, Len(c.buffer))]
         IN  IF st.panic \/ ~UriParses(p.path)
             THEN [c EXCEPT !.process_state = "Empty", !.pc = "panic"]
             ELSE Call(c1, "find", req1, << >>, Consumed(c) + p.amt, Len(c.buffer))

RequestStep(c) ==
  LET p == HeadParse(c.buffer) IN
  CASE p.status = "Partial" -> ToRead(c)
    [] p.status = "Err" -> [c EXCEPT !.process_state = "Empty", !.pc = "Err"]
    [] OTHER ->
         LET st == HeaderLoop(p.headers, 1,
                     [read_state |-> "Body", body_size |-> 0, panic |-> FALSE])
             req1 == [RequestInit(c.req, p.method, p.path)
                        EXCEPT !.headers = StoredHeaders(p.headers)]
             c1 == [c EXCEPT !.body_size = st.body_size,
                             !.read_state = st.read_state,
                             !.req_func = "Empty",
                             !.buffer = SubSeq(c.buffer, p.amt + 1, Len(c.buffer))]
         IN  IF st.panic \/ ~UriParses(p.path)
             THEN [c EXCEPT !.process_state = "Empty", !.pc = "panic"]
             ELSE Call(c1, "find", req1, << >>, Consumed(c) + p.amt, Len(c.buffer))

ReadyStep(c) ==
  CASE c.read_state = "Body" -> BodyStep(c)
    [] c.read_state = "Chunk" -> ChunkStep(c)
    [] OTHER -> RequestStep(c)

ReadData_Overwrite(c, bytes) ==
  [c EXCEPT !.buffer = bytes,
            !.rcvd = @ + Len(bytes),
            !.keep_alive_timer = KeepAliveSecs,
            !.pc = "ready"]

\* the mutation: bytes read do not push the keep-alive deadline back
ReadData_NoReset(c, bytes) ==
  [c EXCEPT !.buffer = @ \o bytes,
            !.rcvd = @ + Len(bytes),
            !.pc = "ready"]

\* socket.read_buf returned Ready(n > 0) with the bytes given
ReadData(c, bytes) ==
  [c EXCEPT !.buffer = @ \o bytes,
            !.rcvd = @ + Len(bytes),
            !.keep_alive_timer = KeepAliveSecs,
            !.pc = "ready"]

\* socket.read_buf returned Ready(0)
ReadZero(c) == [c EXCEPT !.pc = "Ready"]

\* the mutation: the pair is not stored back before suspending
WouldBlock_NoStore(c) ==
  IF c.keep_alive_timer = 0
  THEN [c EXCEPT !.res.shutdown = TRUE, !.pc = "Ready"]
  ELSE [c EXCEPT !.pc = "NotReady"]

\* the mutation: an elapsed deadline suspends the connection like a running one
WouldBlock_NoDeadline(c) ==
  [c EXCEPT !.process_state = "Ready", !.pc = "NotReady"]

\* socket.read_buf returned NotReady: the keep-alive timer decides
WouldBlock(c) ==
  IF c.keep_alive_timer = 0
  THEN [c EXCEPT !.res.shutdown = TRUE, !.pc = "Ready"]
  ELSE [c EXCEPT !.process_state = "Ready", !.pc = "NotReady"]

(***************************************************************************)
(* writer.rs: WriteAll                                                     *)
(***************************************************************************)
MaxBuf == 3
Bytes == {"a", "b"}
Bufs == UNION { [1..n -> Bytes] : n \in 0..MaxBuf }

NoWrite == [kind |-> "none", n |-> 0]

\* no response is being written
NoWriter ==
  [state |-> "Empty", buf |-> << >>, pos |-> 0, wire |-> << >>, last |-> NoWrite,
   ret |-> "none"]

\* write_all: the generated response as bytes, nothing written yet
write_all(bytes) ==
  [state |-> "Writing", buf |-> bytes, pos |-> 0, wire |-> << >>, last |-> NoWrite,
   ret |-> "new"]

zero_write == "Err(WriteZero)"

\* what poll_write may answer for the bytes buf[pos..]
PollWrite(w) ==
  {[kind |-> "NotReady", n |-> 0], [kind |-> "Err", n |-> 0]}
    \cup {[kind |-> "Ready", n |-> k] : k \in 0..(Len(w.buf) - w.pos)}

\* entering poll: the match on self.state
WriteAllEnter(w) ==
  IF w.state = "Empty" THEN [w EXCEPT !.ret = "panic"] ELSE [w EXCEPT !.ret = "loop"]

\* the mutation: after a would-block the write starts over from the first byte
WriteAllStep_Restart(w, out) ==
  IF w.pos < Len(w.buf)
  THEN IF out.kind = "NotReady"
       THEN [w EXCEPT !.last = out, !.pos = 0, !.ret = "NotReady"]
       ELSE IF out.kind = "Err"
            THEN [w EXCEPT !.last = out, !.ret = "Err(io)"]
            ELSE LET w1 == [w EXCEPT !.last = out,
                                     !.pos = @ + out.n,
                                     !.wire = @ \o SubSeq(w.buf, w.pos + 1, w.pos + out.n)]
                 IN IF out.n = 0 THEN [w1 EXCEPT !.ret = zero_write] ELSE w1
  ELSE [w EXCEPT !.state = "Empty", !.ret = "Ok"]

\* one test of the while condition: an iteration of the loop when bytes are
\* left, the final mem::replace when none is
WriteAllStep(w, out) ==
  IF w.pos < Len(w.buf)
  THEN IF out.kind = "NotReady"
       THEN [w EXCEPT !.last = out, !.ret = "NotReady"]
       ELSE IF out.kind = "Err"
            THEN [w EXCEPT !.last = out, !.ret = "Err(io)"]
            ELSE LET w1 == [w EXCEPT !.last = out,
                                     !.pos = @ + out.n,
                                     !.wire = @ \o SubSeq(w.buf, w.pos + 1, w.pos + out.n)]
                 IN IF out.n = 0 THEN [w1 EXCEPT !.ret = zero_write] ELSE w1
  ELSE [w EXCEPT !.state = "Empty", !.ret = "Ok"]

(***************************************************************************)
(* The requests a peer sends                                               *)
(***************************************************************************)
Payload(n) == [i \in 1..n |-> Data(IF i % 2 = 1 THEN "x" ELSE "y")]

RECURSIVE Frames(_, _)
Frames(payload, size) ==
  IF payload = << >>
  THEN << >>
  ELSE LET k == IF Len(payload) < size THEN Len(payload) ELSE size IN
       <<SizeLine(Dec(k))>> \o SubSeq(payload, 1, k) \o <<Crlf>>
         \o Frames(SubSeq(payload, k + 1, Len(payload)), size)

ReqNone(path) ==
  [method |-> "GET", path |-> path, hdrs |-> <<Hdr("Host", <<"h">>)>>,
   framing |-> "none", payload |-> << >>, body |-> << >>]

ReqCL(path, n) ==
  [method |-> "POST", path |-> path, hdrs |-> <<Hdr("Content-Length", Dec(n))>>,
   framing |-> "cl", payload |-> Payload(n), body |-> Payload(n)]

ReqChunked(path, n, size) ==
  [method |-> "POST", path |-> path, hdrs |-> <<Hdr("Transfer-Encoding", Chunked)>>,
   framing |-> "chunked", payload |-> Payload(n),
   body |-> Frames(Payload(n), size) \o <<SizeLine(<<"0">>), Crlf>>]

EncodeReq(r) == <<Line(r.method, r.path)>> \o r.hdrs \o <<EndOfHead>> \o r.body

RECURSIVE Encode(_)
Encode(rs) == IF rs = << >> THEN << >> ELSE EncodeReq(Head(rs)) \o Encode(Tail(rs))

Paths == {EchoPath, PlainPath}

Singles ==
  UNION { {ReqNone(p)}
            \cup {ReqCL(p, n) : n \in 0..MaxBody}
            \cup {ReqChunked(p, n, sz) : n \in 0..MaxBody, sz \in {1, MaxBody}} : p \in Paths }

PairReqs == {ReqNone(PlainPath), ReqCL(EchoPath, 1)}

\* heads with a malformed value: a Content-Length that is no decimal number,
\* a path the Uri parser rejects
BadPath == <<"/", "^">>
ReqBadLength(path) ==
  [method |-> "POST", path |-> path, hdrs |-> <<Hdr("Content-Length", <<"1", "x">>)>>,
   framing |-> "none", payload |-> << >>, body |-> << >>]

Malformed == {ReqBadLength(PlainPath), ReqNone(BadPath)}

\* heads whose framing headers vary in value, length and order
Gzip == <<"g", "z", "i", "p">>
Identity == <<"i", "d", "e", "n", "t", "i", "t", "y">>
ReqHeaders(hdrs, framing) ==
  [method |-> "POST", path |-> PlainPath, hdrs |-> hdrs, framing |-> framing,
   payload |-> Payload(1),
   body |-> IF framing = "chunked"
            THEN Frames(Payload(1), 1) \o <<SizeLine(<<"0">>), Crlf>>
            ELSE Payload(1)]

HeaderVariants ==
  { ReqHeaders(<<Hdr("Content-Length", Dec(1)), Hdr("Transfer-Encoding", Chunked)>>, "chunked"),
    ReqHeaders(<<Hdr("Transfer-Encoding", Chunked), Hdr("Content-Length", Dec(1))>>, "chunked"),
    ReqHeaders(<<Hdr("Transfer-Encoding", <<"x", ",">> \o Chunked)>>, "chunked"),
    ReqHeaders(<<Hdr("Transfer-Encoding", Identity), Hdr("Content-Length", Dec(1))>>, "cl"),
    ReqHeaders(<<Hdr("Content-Length", Dec(1)), Hdr("Transfer-Encoding", Gzip)>>, "cl") }

Scenarios ==
  {<<r>> : r \in Singles \cup Malformed \cup HeaderVariants}
    \cup {<<r1, r2>> : r1 \in PairReqs, r2 \in PairReqs}

(***************************************************************************)
(* State                                                                   *)
(***************************************************************************)
VARIABLES
  router,     \* the Router value
  numAdds,    \* number of add() calls made
  built,      \* Router::build() has been called: the router is shared read-only
  added,      \* history: the (method, path, func) triples add() was called with
  lastAdd,    \* history: the arguments of the most recent add()
  found,      \* the last find(): the request and what it produced
  reqs,       \* the requests the peer sends on the connection
  stream,     \* their bytes, in order
  sent,       \* how many of them have reached the socket
  peer_closed,\* the peer has closed its side after the last byte
  rcvd,       \* how many bytes read_buf has moved into the buffer
  buffer,     \* Reader.buffer
  req_func,   \* Reader.req_func: "Empty" or "Function"
  body_size,  \* Reader.body_size
  read_state, \* Reader.read_state
  process_state, \* Reader.process_state: "Empty", "Ready" or "Processing"
  fut,        \* the handler future held by Processing
  req,        \* the Request of the (Request, Response) pair
  res,        \* the Response of the pair
  keep_alive_timer, \* seconds left until the keep-alive deadline
  pc,         \* where Reader::poll stands, or what it returned
  log,        \* history: the handler invocations made, in order
  idle,       \* seconds since the last byte was read or a handler completed
  state,      \* WriteAll: "Writing" or "Empty"
  buf,        \* WriteAll: the bytes of the generated response
  pos,        \* WriteAll: how many bytes of buf have been written
  wire,       \* the bytes the write half has accepted, in order
  last,       \* the outcome of the latest poll_write
  ret         \* what WriteAll::poll returned, or where it stands

rvars == <<router, numAdds, built, added, lastAdd, found>>
evars == <<reqs, stream, sent, peer_closed>>
cvars == <<rcvd, buffer, req_func, body_size, read_state, process_state, fut, req, res,
           keep_alive_timer, pc, log>>
vars == <<router, numAdds, built, added, lastAdd, found,
          reqs, stream, sent, peer_closed,
          rcvd, buffer, req_func, body_size, read_state, process_state, fut, req, res,
          keep_alive_timer, pc, log, idle,
          state, buf, pos, wire, last, ret>>
wvars == <<state, buf, pos, wire, last, ret>>

NoAdd == [method |-> None, path |-> << >>, func |-> None]

NoFind ==
  [method |-> None, path |-> << >>, outcome |-> "none", func |-> None,
   params |-> << >>, walk |-> WalkStart, segs |-> << >>]

RouterInit ==
  /\ router = RouterNew
  /\ numAdds = 0
  /\ built = FALSE
  /\ added = {}
  /\ lastAdd = NoAdd
  /\ found = NoFind

\* the Reader record of the current state, and the state a record stands for
Conn ==
  [ buffer |-> buffer, req_func |-> req_func, body_size |-> body_size,
    read_state |-> read_state, process_state |-> process_state, fut |-> fut,
    req |-> req, res |-> res, keep_alive_timer |-> keep_alive_timer,
    pc |-> pc, log |-> log, rcvd |-> rcvd ]

Become(c) ==
  /\ buffer' = c.buffer
  /\ req_func' = c.req_func
  /\ body_size' = c.body_size
  /\ read_state' = c.read_state
  /\ process_state' = c.process_state
  /\ fut' = c.fut
  /\ req' = c.req
  /\ res' = c.res
  /\ keep_alive_timer' = c.keep_alive_timer
  /\ pc' = c.pc
  /\ log' = c.log
  /\ rcvd' = c.rcvd

ReaderInit(rs) ==
  /\ reqs = rs
  /\ stream = Encode(rs)
  /\ sent = 0
  /\ peer_closed = FALSE
  /\ buffer = ReaderNew.buffer
  /\ req_func = ReaderNew.req_func
  /\ body_size = ReaderNew.body_size
  /\ read_state = ReaderNew.read_state
  /\ process_state = ReaderNew.process_state
  /\ fut = ReaderNew.fut
  /\ req = ReaderNew.req
  /\ res = ReaderNew.res
  /\ keep_alive_timer = ReaderNew.keep_alive_timer
  /\ pc = ReaderNew.pc
  /\ log = ReaderNew.log
  /\ rcvd = ReaderNew.rcvd
  /\ idle = 0

\* the WriteAll record of the current state, and the state a record stands for
Writer ==
  [state |-> state, buf |-> buf, pos |-> pos, wire |-> wire, last |-> last, ret |-> ret]

WriterBecome(w) ==
  /\ state' = w.state
  /\ buf' = w.buf
  /\ pos' = w.pos
  /\ wire' = w.wire
  /\ last' = w.last
  /\ ret' = w.ret

WriterInit(w) ==
  /\ state = w.state
  /\ buf = w.buf
  /\ pos = w.pos
  /\ wire = w.wire
  /\ last = w.last
  /\ ret = w.ret

(***************************************************************************)
(* Router operations                                                       *)
(***************************************************************************)
Add(method, path, func) ==
  /\ ~built
  /\ numAdds < MaxAdds
  /\ router' = add(router, method, path, func)
  /\ numAdds' = numAdds + 1
  /\ added' = added \cup {[method |-> method, path |-> path, func |-> func]}
  /\ lastAdd' = [method |-> method, path |-> path, func |-> func]
  /\ UNCHANGED <<built, found>>
  /\ UNCHANGED <<evars, cvars, idle, wvars>>

Build ==
  /\ ~built
  /\ built' = TRUE
  /\ UNCHANGED <<router, numAdds, added, lastAdd, found>>
  /\ UNCHANGED <<evars, cvars, idle, wvars>>

\* find() does not change the router, so a second find from the same router
\* reaches no state the first does not: the model takes one per behaviour
Find(method, path) ==
  /\ built
  /\ found = NoFind
  /\ found' = [method |-> method, path |-> path] @@ find(router, path)
  /\ UNCHANGED <<router, numAdds, built, added, lastAdd>>
  /\ UNCHANGED <<evars, cvars, idle, wvars>>

RouterNext ==
  \/ \E m \in Methods, p \in Patterns, h \in Handlers : Add(m, p, h)
  \/ Build
  \/ \E m \in Methods, p \in ReqPaths : Find(m, p)

\* the router alone: no connection is open
RouterOnly == RouterInit /\ ReaderInit(<< >>) /\ WriterInit(NoWriter)

RouterSpec == RouterOnly /\ [][RouterNext]_vars

(***************************************************************************)
(* Connection: the peer, the clock, the handlers                           *)
(***************************************************************************)
Running == pc \in {"poll", "ready", "read", "NotReady"}

\* k more bytes of the stream reach the socket
Send(k) ==
  /\ Running
  /\ sent + k <= Len(stream)
  /\ sent' = sent + k
  /\ UNCHANGED <<reqs, stream, peer_closed, cvars, rvars, idle, wvars>>

PeerClose ==
  /\ Running
  /\ sent = Len(stream)
  /\ ~peer_closed
  /\ peer_closed' = TRUE
  /\ UNCHANGED <<reqs, stream, sent, cvars, rvars, idle, wvars>>

\* a second passes while the task is suspended
Tick ==
  /\ pc = "NotReady"
  /\ keep_alive_timer > 0
  /\ keep_alive_timer' = keep_alive_timer - 1
  /\ idle' = IF idle < KeepAliveSecs THEN idle + 1 ELSE idle
  /\ UNCHANGED <<rcvd, buffer, req_func, body_size, read_state, process_state, fut, req,
                 res, pc, log, evars, rvars, wvars>>

\* the pending handler future becomes ready
HandlerDone ==
  /\ pc \in {"poll", "NotReady"}
  /\ process_state = "Processing"
  /\ ~fut.done
  /\ fut' = [fut EXCEPT !.done = TRUE]
  /\ UNCHANGED <<rcvd, buffer, req_func, body_size, read_state, process_state, req, res,
                 keep_alive_timer, pc, log, evars, rvars, idle, wvars>>

\* the executor polls the suspended task again: its handler future notified
\* it, its socket became readable (bytes or end of stream), or its timer fired
Wake ==
  /\ pc = "NotReady"
  /\ \/ process_state = "Processing" /\ fut.done
     \/ process_state = "Ready"
          /\ (sent > rcvd \/ peer_closed \/ keep_alive_timer = 0)
  /\ pc' = "poll"
  /\ UNCHANGED <<rcvd, buffer, req_func, body_size, read_state, process_state, fut, req,
                 res, keep_alive_timer, log, evars, rvars, idle, wvars>>

(***************************************************************************)
(* Connection: Reader::poll                                                *)
(***************************************************************************)
Processing ==
  /\ pc = "poll"
  /\ process_state = "Processing"
  /\ \E take \in BOOLEAN : Become(ProcessingStep(Conn, take))
  /\ idle' = IF fut.done THEN 0 ELSE idle
  /\ UNCHANGED <<evars, rvars, wvars>>

AtReady == (pc = "poll" /\ process_state = "Ready") \/ pc = "ready"

Body ==
  /\ AtReady
  /\ read_state = "Body"
  /\ Become(BodyStep(Conn))
  /\ UNCHANGED <<evars, rvars, idle, wvars>>

Chunk ==
  /\ AtReady
  /\ read_state = "Chunk"
  /\ Become(ChunkStep(Conn))
  /\ UNCHANGED <<evars, rvars, idle, wvars>>

Request ==
  /\ AtReady
  /\ read_state = "Request"
  /\ Become(RequestStep(Conn))
  /\ UNCHANGED <<evars, rvars, idle, wvars>>

SocketRead ==
  /\ pc = "read"
  /\ IF sent > rcvd
     THEN Become(ReadData(Conn, SubSeq(stream, rcvd + 1, sent)))
     ELSE IF peer_closed
          THEN Become(ReadZero(Conn))
          ELSE Become(WouldBlock(Conn))
  /\ idle' = IF sent > rcvd THEN 0 ELSE idle
  /\ UNCHANGED <<evars, rvars, wvars>>

Next ==
  \/ \E k \in 1..Len(stream) : Send(k)
  \/ PeerClose
  \/ Tick
  \/ HandlerDone
  \/ Wake
  \/ Processing
  \/ Body
  \/ Chunk
  \/ Request
  \/ SocketRead

Init == RouterInit /\ (\E rs \in Scenarios : ReaderInit(rs)) /\ WriterInit(NoWriter)

Spec == Init /\ [][Next]_vars

(***************************************************************************)
(* Writing a response: WriteAll::poll                                      *)
(***************************************************************************)
\* the executor polls the future: for the first time, or after a would-block
WriterPoll ==
  /\ ret \in {"new", "NotReady"}
  /\ WriterBecome(WriteAllEnter(Writer))
  /\ UNCHANGED <<rvars, evars, cvars, idle>>

WriterWrite ==
  /\ ret = "loop"
  /\ pos < Len(buf)
  /\ \E out \in PollWrite(Writer) : WriterBecome(WriteAllStep(Writer, out))
  /\ UNCHANGED <<rvars, evars, cvars, idle>>

WriterFinish ==
  /\ ret = "loop"
  /\ pos >= Len(buf)
  /\ WriterBecome(WriteAllStep(Writer, NoWrite))
  /\ UNCHANGED <<rvars, evars, cvars, idle>>

WriterNext ==
  \/ WriterPoll
  \/ WriterWrite
  \/ WriterFinish

WriterOnly ==
  /\ RouterInit
  /\ ReaderInit(<< >>)
  /\ \E bytes \in Bufs : WriterInit(write_all(bytes))

WriterSpec == WriterOnly /\ [][WriterNext]_vars

(***************************************************************************)
(* Router properties                                                       *)
(***************************************************************************)
NonEmptySegs(path) == SelectSeq(split(path, "/"), LAMBDA x : x # << >>)

IsLiteralPath(path) ==
  /\ path # <<"*">>
  /\ \A i \in 1..Len(NonEmptySegs(path)) :
       /\ ~IsParamSeg(NonEmptySegs(path)[i])
       /\ NonEmptySegs(path)[i] # <<"*">>

HasParamSeg(path) ==
  /\ \E i \in 1..Len(NonEmptySegs(path)) : IsParamSeg(NonEmptySegs(path)[i])
  /\ \A i \in 1..Len(NonEmptySegs(path)) : NonEmptySegs(path)[i] # <<"*">>

PatternMatches(pat, path) ==
  LET ps == NonEmptySegs(pat)
      rs == NonEmptySegs(path)
  IN  /\ Len(ps) = Len(rs)
      /\ \A i \in 1..Len(ps) : IsParamSeg(ps[i]) \/ ps[i] = rs[i]

\* one (name, value) pair per param segment of the pattern, left to right
ExpectedParams(pat, path) ==
  LET ps == NonEmptySegs(pat)
      rs == NonEmptySegs(path)
      idx == SelectSeq([i \in 1..Len(ps) |-> i], LAMBDA i : IsParamSeg(ps[i]))
  IN  [k \in 1..Len(idx) |-> <<SubSeq(ps[idx[k]], 2, Len(ps[idx[k]])), rs[idx[k]]>>]

\* the key path of the node a pattern ends at
Terminal(path) ==
  LET ps == NonEmptySegs(path) IN [i \in 1..Len(ps) |-> SegKey(ps[i])]

TrieNames == {"get", "put", "post", "head", "patch", "delete", "options", "routes"}

\* C5: after add(method, p, h) with p a literal path, a find for a request with
\* that method and path p dispatches to h with an empty param list.
C5_ExactMatchDispatches ==
  ( /\ found.outcome # "none"
    /\ lastAdd.func # None
    /\ IsLiteralPath(lastAdd.path)
    /\ found.method = lastAdd.method
    /\ found.path = lastAdd.path )
  => ( /\ found.outcome = "called"
       /\ found.func = lastAdd.func
       /\ found.params = << << >> >> )

\* C6: when the only pattern registered for a method contains param segments,
\* a find for a path whose segments match it dispatches to that pattern's
\* handler with one (name, value) pair per param segment, in order, the name
\* being the one written in the pattern.
C6_ParamExtraction ==
  ( /\ found.outcome # "none"
    /\ lastAdd.func # None
    /\ HasParamSeg(lastAdd.path)
    /\ found.method = lastAdd.method
    /\ \A a \in added :
         (a.method = lastAdd.method /\ a.path # <<"*">>) => a.path = lastAdd.path
    /\ PatternMatches(lastAdd.path, found.path) )
  => ( /\ found.outcome = "called"
       /\ found.func = lastAdd.func
       /\ found.params = <<ExpectedParams(lastAdd.path, found.path)>> )

C8_WildcardStopsWalk ==
  \A k \in 1..Len(found.walk.taken) :
    found.walk.taken[k].key = <<"*">> =>
      /\ k = Len(found.walk.taken)
      /\ ~found.walk.not_found
      /\ found.walk.node = Append(found.walk.taken[k].at, <<"*">>)
      /\ \A j \in 1..Len(found.walk.looked) :
           found.walk.looked[j] <= found.walk.taken[k].idx
      /\ found.outcome = "called"
      /\ found.func = router.routes[found.walk.node].method

\* C9: adding a path already added under the same method (up to empty
\* segments) leaves every trie with the same set of nodes, changes nothing but
\* the terminal node's handler, and that handler is the one of the second add.
C9_ReAddOverwritesTerminal ==
  [][ ( /\ numAdds' = numAdds + 1
        /\ lastAdd'.path # <<"*">>
        /\ \E a \in added :
             /\ a.method = lastAdd'.method
             /\ a.path # <<"*">>
             /\ NonEmptySegs(a.path) = NonEmptySegs(lastAdd'.path) )
      => LET b == Bucket(lastAdd'.method)
             term == Terminal(lastAdd'.path)
         IN  /\ \A n \in TrieNames : DOMAIN router'[n] = DOMAIN router[n]
             /\ \A n \in TrieNames \ {b} : router'[n] = router[n]
             /\ term \in DOMAIN router[b]
             /\ \A q \in DOMAIN router[b] \ {term} : router'[b][q] = router[b][q]
             /\ router'[b][term].param = router[b][term].param
             /\ router'[b][term].method = lastAdd'.func
             /\ router'.default = router.default ]_vars

\* "/a/b" was added with one handler and then "/a//b" with another
C9_Witness ==
  /\ numAdds = 2
  /\ lastAdd.path = <<"/", "a", "/", "/", "b">>
  /\ \E a \in added :
       /\ a.method = lastAdd.method
       /\ a.path = <<"/", "a", "/", "b">>
       /\ a.func # lastAdd.func
  /\ router[Bucket(lastAdd.method)][<< <<"a">>, <<"b">> >>].method = lastAdd.func
  /\ Cardinality(DOMAIN router[Bucket(lastAdd.method)]) = 3

\* the handler slot a request path resolves to, None when it resolves to none
Resolved ==
  IF found.path = <<"/">>
  THEN router.routes[<< >>].method
  ELSE IF found.walk.not_found THEN None ELSE router.routes[found.walk.node].method

\* C10: provided a default handler is registered, find never fails fatally, and
\* a request that resolves to no handler-bearing node (not-found walk, terminal
\* without handler, or "/" without a root handler) goes to the default handler.
C10_MissGoesToDefault ==
  (found.outcome # "none" /\ router.default # None)
  => ( /\ found.outcome = "called"
       /\ Resolved = None => found.func = router.default )

(***************************************************************************)
(* Connection properties                                                   *)
(***************************************************************************)
\* Reader::poll on a connection whose first read returns all of bytes at once,
\* every handler future being ready when first polled, up to the first read
\* that would block
RECURSIVE RunWhole(_, _, _)
RunWhole(c, bytes, fuel) ==
  IF fuel = 0 THEN c
  ELSE IF c.pc = "poll" /\ c.process_state = "Processing"
       THEN RunWhole(ProcessingStep([c EXCEPT !.fut.done = TRUE], TRUE), bytes, fuel - 1)
       ELSE IF c.pc \in {"poll", "ready"}
            THEN RunWhole(ReadyStep(c), bytes, fuel - 1)
            ELSE IF c.pc = "read" /\ c.rcvd < Len(bytes)
                 THEN RunWhole(ReadData(c, bytes), bytes, fuel - 1)
                 ELSE c

WholeLog(bytes) == RunWhole(ReaderNew, bytes, 4 * Len(bytes) + 8).log

\* what a handler invocation shows to the handler
View(e) ==
  [kind |-> e.kind, method |-> e.method, path |-> e.path, headers |-> e.headers,
   payload |-> e.payload, is_last |-> e.is_last]

Calls(l) == [i \in 1..Len(l) |-> View(l[i])]

OnData(l) == SelectSeq(l, LAMBDA e : e.kind = "on_data")
Finds(l) == SelectSeq(l, LAMBDA e : e.kind = "find")

RECURSIVE ConcatPayloads(_)
ConcatPayloads(l) == IF l = << >> THEN << >> ELSE Head(l).payload \o ConcatPayloads(Tail(l))

\* every byte of the stream has been read and poll has come to rest with no
\* handler future pending
Quiescent ==
  /\ rcvd = Len(stream)
  /\ (pc = "NotReady" /\ process_state = "Ready") \/ pc = "Ready"

\* C1: two complete requests sent on one connection with no idle gap, however
\* their bytes are divided across reads, are each dispatched through the
\* router exactly once, in order, before the connection ends.
C1_BothRequestsDispatched ==
  (Len(reqs) = 2 /\ pc = "Ready" /\ ~res.shutdown /\ rcvd = Len(stream))
  => /\ Len(Finds(log)) = 2
     /\ \A j \in 1..2 : /\ Finds(log)[j].method = reqs[j].method
                        /\ Finds(log)[j].path = reqs[j].path

\* C2: for a stream holding one complete request, whatever the split into
\* fragments, the handler invocations made (dispatch with method, path and
\* headers; continuation calls with payload and is_last) are those made when
\* the whole stream arrives as one fragment.
C2_FragmentationTransparent ==
  (Len(reqs) = 1 /\ Quiescent) => Calls(log) = Calls(WholeLog(stream))

\* the body reached the buffer after the head had been dispatched, and the
\* continuation has been called
C2_Witness ==
  /\ Len(reqs) = 1
  /\ Quiescent
  /\ Len(log) >= 2
  /\ log[1].buffered < Len(stream)
  /\ log[2].kind = "on_data"
  /\ log[2].payload # << >>

\* the position in log of the j-th router dispatch, 0 when there is none yet
FindAt(j) ==
  LET idx == SelectSeq([i \in 1..Len(log) |-> i], LAMBDA i : log[i].kind = "find")
  IN  IF j <= Len(idx) THEN idx[j] ELSE 0

\* the continuation calls made for the j-th request
CallsOf(j) ==
  LET from == FindAt(j)
      to == IF FindAt(j + 1) = 0 THEN Len(log) ELSE FindAt(j + 1) - 1
  IN  IF from = 0 THEN << >> ELSE SubSeq(log, from + 1, to)

\* the offset in the stream at which the head of the j-th request ends
HeadEndOf(j) == Len(Encode(SubSeq(reqs, 1, j - 1))) + Len(reqs[j].hdrs) + 2

ContentLengthOf(r) ==
  LET i == CHOOSE k \in 1..Len(r.hdrs) : r.hdrs[k].a = "Content-Length"
  IN  ParseUsize(r.hdrs[i].b).val

\* C3: for a request with Content-Length n whose handler installs a
\* continuation, the continuation is invoked exactly once, only after all n
\* body bytes are buffered, with exactly the n bytes following the head as
\* payload and with is_last = true.
C3_ContentLengthBodyOnce ==
  \A j \in 1..Len(reqs) :
    (reqs[j].framing = "cl" /\ Installs(reqs[j].path)) =>
      LET n == ContentLengthOf(reqs[j])
          h == HeadEndOf(j)
          calls == CallsOf(j)
      IN  /\ Len(calls) <= 1
          /\ \A i \in 1..Len(calls) :
               /\ calls[i].kind = "on_data"
               /\ calls[i].buffered >= n
               /\ calls[i].pos = h
               /\ calls[i].payload = SubSeq(stream, h + 1, h + n)
               /\ calls[i].data = calls[i].payload
               /\ calls[i].is_last
          /\ ( /\ FindAt(j) # 0
               /\ rcvd >= h + n
               /\ (pc = "NotReady" /\ process_state = "Ready") \/ pc = "Ready" )
             => Len(calls) = 1

\* a two-byte body that arrived after its head was dispatched has been
\* handed to the continuation
C3_Witness ==
  /\ Len(reqs) = 1
  /\ reqs[1].framing = "cl"
  /\ Len(log) = 2
  /\ log[1].buffered < HeadEndOf(1) + 2
  /\ log[2].kind = "on_data"
  /\ Len(log[2].payload) = 2
  /\ pc = "NotReady"

\* C4: the bytes the continuation receives for a payload sent as chunks ending
\* with the zero-length chunk, concatenated in delivery order, are those it
\* receives for the same payload sent with an equal Content-Length, and in both
\* cases the final delivery carries is_last = true.
C4_ChunkedEqualsContentLength ==
  (Len(reqs) = 1 /\ reqs[1].framing = "chunked" /\ Installs(reqs[1].path) /\ Quiescent)
  => LET chunked == OnData(log)
         sized == OnData(WholeLog(Encode(<<ReqCL(reqs[1].path, Len(reqs[1].payload))>>)))
     IN  /\ chunked # << >>
         /\ sized # << >>
         /\ ConcatPayloads(chunked) = ConcatPayloads(sized)
         /\ chunked[Len(chunked)].is_last
         /\ sized[Len(sized)].is_last

\* two one-byte chunks and the terminal chunk have been delivered
C4_Witness ==
  /\ Len(reqs) = 1
  /\ reqs[1].framing = "chunked"
  /\ Quiescent
  /\ Len(OnData(log)) = 3
  /\ ConcatPayloads(OnData(log)) = Payload(2)

\* a head one of whose values the head processing cannot convert
IsMalformed(r) ==
  \/ ~UriParses(r.path)
  \/ \E i \in 1..Len(r.hdrs) : r.hdrs[i].a = "Content-Length" /\ ~ParseUsize(r.hdrs[i].b).ok

\* C11: a completely parsed head carrying a malformed value (a Content-Length
\* that is no decimal number, a path that does not parse) ends its connection
\* with an error returned from poll: the process is not aborted and no handler
\* is dispatched for that head.
C11_MalformedHeadIsConnectionError ==
  (Len(reqs) = 1 /\ IsMalformed(reqs[1]))
  => /\ pc # "panic"
     /\ FindAt(1) = 0
     /\ (rcvd >= HeadEndOf(1) /\ pc \notin {"ready", "read"}) => pc = "Err"

\* C12 as stated: whenever poll has returned, suspended, finished or failed,
\* the stored process state is Ready or Processing, never Empty.
C12_NeverStoredEmpty ==
  pc \in {"NotReady", "Ready", "Err"} => process_state \in {"Ready", "Processing"}

\* C12 amended: whenever poll has returned suspended the stored process state
\* is Ready or Processing, and a poll never finds Empty at the top of its
\* loop; when poll has finished or failed the stored state is Empty.
C12_SuspendedStoresReadyOrProcessing ==
  /\ pc = "NotReady" => process_state \in {"Ready", "Processing"}
  /\ pc = "poll" => process_state \in {"Ready", "Processing"}
  /\ pc \in {"Ready", "Err"} => process_state = "Empty"

\* poll suspended on a read that would block, after a handler had run
C12_Witness ==
  /\ pc = "NotReady"
  /\ process_state = "Ready"
  /\ Len(log) >= 1
  /\ rcvd = sent

\* the heads wholly among the first n bytes of the stream
HeadsWithin(n) == {j \in 1..Len(reqs) : HeadEndOf(j) <= n}

\* C13: a read that would block in the Ready state ends the connection
\* gracefully when the keep-alive deadline has elapsed (shutdown requested on
\* the Response, the pair returned as the final result, no handler dispatched
\* by that step and none ever for a head only partly buffered) and otherwise
\* stores Ready(pair) and suspends.
C13_TimeoutEndsGracefully ==
  /\ [][ (pc = "read" /\ pc' # "read" /\ sent = rcvd /\ ~peer_closed)
         => /\ log' = log
            /\ buffer' = buffer
            /\ req' = req
            /\ IF keep_alive_timer = 0
               THEN pc' = "Ready" /\ res'.shutdown
               ELSE pc' = "NotReady" /\ process_state' = "Ready" /\ ~res'.shutdown ]_vars
  /\ [](Len(Finds(log)) <= Cardinality(HeadsWithin(rcvd)))

\* the deadline elapsed with part of a head buffered: the connection ended
\* with shutdown requested and nothing dispatched
C13_Witness ==
  /\ pc = "Ready"
  /\ res.shutdown
  /\ buffer # << >>
  /\ rcvd < HeadEndOf(1)
  /\ log = << >>

\* C14: WriteAll::poll fails with a WriteZero error when a write accepts 0
\* bytes while bytes remain, yields the write half only when pos = buf.len(),
\* and after a would-block resumes from the saved pos: the bytes accepted so
\* far are always exactly the first pos bytes of the buffer, none written
\* twice and none skipped.
C14_WriteAllWritesEachByteOnce ==
  /\ pos <= Len(buf)
  /\ wire = SubSeq(buf, 1, pos)
  /\ ret = "Ok" => (pos = Len(buf) /\ wire = buf /\ state = "Empty")
  /\ (last.kind = "Ready" /\ last.n = 0) => ret = zero_write
  /\ ret = zero_write => (last.kind = "Ready" /\ last.n = 0 /\ pos < Len(buf))
  /\ ret = "NotReady" => (state = "Writing" /\ last.kind = "NotReady")

\* the write suspended on a would-block with part of the buffer written
C14_Witness ==
  /\ ret = "NotReady"
  /\ pos > 0
  /\ pos < Len(buf)

\* C15: the keep-alive deadline is set to now + timeout by every socket read
\* that returns bytes and by every handler future completion, so the
\* connection is never closed for idleness while less than the timeout has
\* passed since the most recent byte read or handler completion.
C15_DeadlineFollowsActivity ==
  /\ [][ /\ rcvd' > rcvd => keep_alive_timer' = KeepAliveSecs
         /\ (process_state = "Processing" /\ process_state' # "Processing")
              => keep_alive_timer' = KeepAliveSecs ]_vars
  /\ []((pc = "Ready" /\ res.shutdown) => idle >= KeepAliveSecs)

\* a connection that read a request and ran its handler was closed for
\* idleness a full timeout later
C15_Witness ==
  /\ pc = "Ready"
  /\ res.shutdown
  /\ Len(log) >= 1
  /\ rcvd = Len(stream)
  /\ idle = KeepAliveSecs

\* C16: while the process state is Processing the connection reads no bytes,
\* parses no head, decodes no chunk and invokes no handler, and leaves the
\* buffer, ReadState and body_size unchanged; a handler future exists exactly
\* in Processing, so each new one is created after the previous completed.
C16_ProcessingIsExclusive ==
  /\ [][ process_state = "Processing"
         => /\ buffer' = buffer
            /\ read_state' = read_state
            /\ body_size' = body_size
            /\ rcvd' = rcvd
            /\ log' = log ]_vars
  /\ [][ log' # log => (fut = NoFut /\ fut' # NoFut /\ Len(log') = Len(log) + 1) ]_vars
  /\ [](fut # NoFut <=> process_state = "Processing")

\* bytes wait on the socket while the handler future is pending
C16_Witness ==
  /\ process_state = "Processing"
  /\ ~fut.done
  /\ pc = "NotReady"
  /\ sent > rcvd
  /\ buffer # << >>

\* C17: every parsed head clears the stored continuation before the router
\* is called: a stored continuation belongs to the request being read, and a
\* request whose handler installs none has no continuation call made for it.
C17_ContinuationDoesNotOutliveRequest ==
  /\ fut.kind = "find" => req_func = "Empty"
  /\ req_func = "Function"
       => (Len(Finds(log)) >= 1 /\ Installs(reqs[Len(Finds(log))].path))
  /\ \A j \in 1..Len(reqs) : ~Installs(reqs[j].path) => CallsOf(j) = << >>

\* after a request whose handler installed a continuation, a request without
\* one has been read to its end and no continuation was called for it
C17_Witness ==
  /\ Len(reqs) = 2
  /\ Installs(reqs[1].path)
  /\ ~Installs(reqs[2].path)
  /\ CallsOf(1) # << >>
  /\ FindAt(2) # 0
  /\ process_state = "Ready"
  /\ read_state = "Request"
  /\ req_func = "Empty"

\* the Content-Length a head declares, 0 when it has none
DeclaredLength(r) ==
  LET cl == {i \in 1..Len(r.hdrs) : r.hdrs[i].a = "Content-Length"}
  IN  IF cl = {} THEN 0
      ELSE ParseUsize(r.hdrs[CHOOSE i \in cl : \A k \in cl : k <= i].b).val

\* a step of the Ready state taken in ReadState = Body
BodyActs ==
  /\ AtReady
  /\ read_state = "Body"
  /\ <<pc, process_state>>' # <<pc, process_state>>

\* C18: in ReadState = Body, body_size is the Content-Length n of the request
\* (0 when absent); the Body step does nothing before n bytes are buffered,
\* and then removes exactly the first n bytes (the payload of the continuation
\* call, or discarded), sets ReadState = Request and leaves the bytes after
\* them unchanged, so the next head starts right after the body.
C18_BodyStepFrame ==
  /\ [][ BodyActs =>
           IF Len(buffer) >= body_size
           THEN /\ buffer' = SubSeq(buffer, body_size + 1, Len(buffer))
                /\ read_state' = "Request"
                /\ rcvd' - Len(buffer') = HeadEndOf(Len(Finds(log))) + body_size
                /\ IF req_func = "Function"
                   THEN /\ Len(log') = Len(log) + 1
                        /\ log'[Len(log')].kind = "on_data"
                        /\ log'[Len(log')].payload = SubSeq(buffer, 1, body_size)
                   ELSE log' = log
           ELSE /\ buffer' = buffer
                /\ read_state' = "Body"
                /\ log' = log ]_vars
  /\ [](read_state = "Body"
          => /\ Len(Finds(log)) >= 1
             /\ body_size = DeclaredLength(reqs[Len(Finds(log))]))

\* the one-byte body of the first request was handed to the continuation and
\* the second request is what the buffer holds
C18_Witness ==
  /\ Len(reqs) = 2
  /\ reqs[1].framing = "cl"
  /\ Len(log) = 2
  /\ log[2].kind = "on_data"
  /\ log[2].payload = Payload(1)
  /\ read_state = "Request"
  /\ buffer = EncodeReq(reqs[2])

\* C19: for a chunked request whose handler installed no continuation, once
\* every frame up to the terminal chunk is in the buffer the connection
\* decodes and discards them all and is back in ReadState = Request with no
\* further byte from the peer: a connection that ends for idleness after the
\* whole request was read has nothing of it left to decode.
C19_BufferedChunksAreDrained ==
  ( /\ Len(reqs) = 1
    /\ reqs[1].framing = "chunked"
    /\ ~Installs(reqs[1].path)
    /\ rcvd = Len(stream)
    /\ ~peer_closed
    /\ pc = "Ready" )
  => (read_state = "Request" /\ buffer = << >>)

EndsInChunked(value) ==
  Len(value) >= Len(Chunked)
    /\ SubSeq(value, Len(value) - Len(Chunked) + 1, Len(value)) = Chunked

DeclaresChunked(r) ==
  \E i \in 1..Len(r.hdrs) : r.hdrs[i].a = "Transfer-Encoding" /\ EndsInChunked(r.hdrs[i].b)

\* C20: a completely parsed head is processed without fault whatever the
\* length and order of its header values: ReadState becomes Chunk exactly when
\* some Transfer-Encoding value ends in "chunked", and otherwise Body with
\* body_size the Content-Length, 0 when absent.
C20_FramingFromHeaders ==
  (Len(reqs) = 1 /\ ~IsMalformed(reqs[1]))
  => /\ pc # "panic"
     /\ (rcvd >= HeadEndOf(1) /\ pc \notin {"ready", "read"}) => FindAt(1) # 0
     /\ fut.kind = "find"
          => IF DeclaresChunked(reqs[1])
             THEN read_state = "Chunk"
             ELSE read_state = "Body" /\ body_size = DeclaredLength(reqs[1])

====
